---- MODULE Spec2Model ----
(***************************************************************************)
(* Model of utility/data_utility.py: data_prep (filter a line list and     *)
(* count rows per location, date and clade) and clades_to_model (choose    *)
(* the clades to model from the weekly proportions of the recent counts).  *)
(*                                                                         *)
(* A data frame is a sequence of rows (records).  A calendar date is the   *)
(* number of days since a Monday, so that Python's date.weekday() is the   *)
(* day number modulo 7 (Monday = 0 ... Sunday = 6).  A nullable date is    *)
(* <<>> (null) or <<d>>.  A proportion count / total_count is kept as the  *)
(* exact fraction; with the small integers used here the float division    *)
(* and the float comparison with the threshold agree with the exact ones.  *)
(***************************************************************************)
EXTENDS Integers, Sequences, FiniteSets

VARIABLES raw, counts_dat, threshold, threshold_weeks, max_day,
          three_sundays_ago, prop_dat, high_prev_variants, error, again, pc

vars == <<raw, counts_dat, threshold, threshold_weeks, max_day,
          three_sundays_ago, prop_dat, high_prev_variants, error, again, pc>>

----------------------------------------------------------------------------
(* Bounds of the model *)

\* rows of a raw line list
MaxRows == 4
\* last calendar day of the aggregated inputs (days 0..MaxDate)
MaxDate == 20
\* largest count of a row of the aggregated inputs
MaxCount == 2
\* largest threshold_weeks
MaxWeeks == 2

\* thresholds, as exact fractions in (0,1]
Thresholds == {[num |-> 1, den |-> 20], [num |-> 1, den |-> 2]}

\* The engine leaves the order of the rows of group_by and unique unspecified;
\* the model ranges over two orders.
Orders == {"forward", "reverse"}

----------------------------------------------------------------------------
(* Program constants *)

\* the length of the slice [:9] and the bound of len(high_prev_variants) > 9
MaxClades == 9

states == {
    "Alabama", "Alaska", "Arizona", "Arkansas", "California", "Colorado", "Connecticut", "Delaware",
    "Florida", "Georgia", "Hawaii", "Idaho", "Illinois", "Indiana", "Iowa", "Kansas", "Kentucky",
    "Louisiana", "Maine", "Maryland", "Massachusetts", "Michigan", "Minnesota", "Mississippi",
    "Missouri", "Montana", "Nebraska", "Nevada", "New Hampshire", "New Jersey", "New Mexico",
    "New York", "North Carolina", "North Dakota", "Ohio", "Oklahoma", "Oregon", "Pennsylvania",
    "Rhode Island", "South Carolina", "South Dakota", "Tennessee", "Texas", "Utah", "Vermont",
    "Virginia", "Washington", "West Virginia", "Wisconsin", "Wyoming", "Washington DC"}

----------------------------------------------------------------------------
(* Helpers of the data frame engine *)

Null == <<>>

IsNotNull(x) == x # Null

RECURSIVE SetToSeq(_)
SetToSeq(S) ==
    IF S = {} THEN <<>>
    ELSE LET x == CHOOSE y \in S : TRUE IN <<x>> \o SetToSeq(S \ {x})

Reverse(s) == [i \in 1..Len(s) |-> s[Len(s) + 1 - i]]

\* The rows of a group_by or unique, in one of the orders the engine may give.
EngineOrder(S, order) ==
    IF order = "forward" THEN SetToSeq(S) ELSE Reverse(SetToSeq(S))

\* the value of a column as a sort key: a null date comes first, before every
\* day (days are >= 0)
SortKey(r, column) ==
    IF column = "date" THEN (IF r.date = <<>> THEN -1 ELSE r.date[1]) ELSE r[column]

\* sort(column), ascending; rows with equal keys stay in the order they came in.
SortAscending(s, column) ==
    LET keys == {SortKey(s[i], column) : i \in 1..Len(s)}
        sorted[K \in SUBSET keys] ==
            IF K = {} THEN <<>>
            ELSE LET m == CHOOSE k \in K : \A l \in K : k <= l
                     HasKey(r) == SortKey(r, column) = m
                 IN  SelectSeq(s, HasKey) \o sorted[K \ {m}]
    IN  sorted[keys]

RECURSIVE SumCount(_)
\* pl.col("count").sum() over a set of rows
SumCount(rows) ==
    IF rows = {} THEN 0
    ELSE LET r == CHOOSE x \in rows : TRUE IN r.count + SumCount(rows \ {r})

Range(s) == {s[i] : i \in 1..Len(s)}

----------------------------------------------------------------------------
(* data_prep *)

\* A raw date is a string: <<"iso", d>> is the ISO text of day d, any other
\* text is <<"text">>, a missing value is <<>>.  A non-strict cast to pl.Date
\* turns what is no ISO date into null.
CastDate(v) == IF v # <<>> /\ v[1] = "iso" THEN <<v[2]>> ELSE Null

\* FilterRow without the condition on the host
FilterRowAnyHost(r) ==
    /\ r.country = "USA"
    /\ r.division \in states
    /\ IsNotNull(r.date)

\* the four conditions of the filter, on a row whose date is cast
FilterRow(r) ==
    /\ r.country = "USA"
    /\ r.division \in states
    /\ IsNotNull(r.date)
    /\ r.host = "Homo sapiens"

\* rename clade_nextstrain to clade and division to location
Rename(r) ==
    [clade |-> r.clade_nextstrain, country |-> r.country, location |-> r.division,
     host |-> r.host, date |-> r.date]

\* the columns of group_by
GroupKey(r) == [location |-> r.location, date |-> r.date, clade |-> r.clade]

\* GroupLen counting the distinct rows of the group
GroupLenDistinct(rows, k) == Cardinality({rows[i] : i \in {j \in 1..Len(rows) : GroupKey(rows[j]) = k}})

\* pl.len() of the group of key k: the number of rows of the group
GroupLen(rows, k) == Cardinality({i \in 1..Len(rows) : GroupKey(rows[i]) = k})

data_prep(dataf, order) ==
    LET cast == [i \in 1..Len(dataf) |-> [dataf[i] EXCEPT !.date = CastDate(@)]]
        kept == SelectSeq(cast, FilterRow)
        df == [i \in 1..Len(kept) |-> Rename(kept[i])]
        sorted == SortAscending(df, "date")
        keys == {GroupKey(sorted[i]) : i \in 1..Len(sorted)}
        groups == {[location |-> k.location, date |-> k.date, clade |-> k.clade,
                    count |-> GroupLen(sorted, k)]
                   : k \in keys}
    IN  SortAscending(EngineOrder(groups, order), "date")

----------------------------------------------------------------------------
(* clades_to_model *)

\* date.weekday(): Monday is 0 and Sunday is 6
Weekday(d) == d % 7

\* dataf['date'].max(): null for a column with no value
MaxDay(dataf) ==
    LET days == {dataf[i].date[1] : i \in {j \in 1..Len(dataf) : IsNotNull(dataf[j].date)}}
    IN  IF days = {} THEN Null ELSE <<CHOOSE d \in days : \A e \in days : e <= d>>

\* max_day - timedelta(days = max_day.weekday() + 7*(threshold_weeks))
ThreeSundaysAgo(day, weeks) == day - (Weekday(day) + 7 * weeks)

\* filter(pl.col("date") >= three_sundays_ago): a null comparison drops the row
InWindow(r, start) == IsNotNull(r.date) /\ r.date[1] >= start

\* group_by_dynamic(every="1w", start_by="sunday"): the lower bound of the
\* window of a day is the Sunday on or before it
WeekStart(d) == d - ((Weekday(d) + 1) % 7)

\* the frame df: the counts summed per clade and week over all locations
WeeklyCounts(dataf, start) ==
    LET rows == {r \in Range(dataf) : InWindow(r, start)}
        groups == {<<r.clade, WeekStart(r.date[1])>> : r \in rows}
    IN  {[clade |-> g[1], date |-> g[2],
          count |-> SumCount({r \in rows : r.clade = g[1] /\ WeekStart(r.date[1]) = g[2]})]
         : g \in groups}

\* the frame total_counts: the counts summed per week
TotalCounts(df) ==
    {[date |-> w, total_count |-> SumCount({r \in df : r.date = w})] : w \in {r.date : r \in df}}

\* df.join(total_counts, on="date") with the column proportion
PropDat(df) ==
    LET total_counts == TotalCounts(df)
    IN  {[clade |-> r.clade, date |-> r.date, count |-> r.count,
          total_count |-> t.total_count, proportion |-> <<r.count, t.total_count>>]
         : <<r, t>> \in {p \in df \X total_counts : p[1].date = p[2].date}}

\* CrossesThreshold with >= for >
MeetsThreshold(r, thr) == r.proportion[1] * thr.den >= thr.num * r.proportion[2]

\* pl.col("proportion") > threshold
CrossesThreshold(r, thr) == r.proportion[1] * thr.den > thr.num * r.proportion[2]

\* the clades of the rows over the threshold, once each
HighPrevVariants(prop, thr, order) ==
    EngineOrder({r.clade : r \in {x \in prop : CrossesThreshold(x, thr)}}, order)

\* SortedTotals with the largest totals first
SortedTotalsDescending(prop, order) ==
    LET totals == {[clade |-> c, count |-> SumCount({r \in prop : r.clade = c})]
                   : c \in {r.clade : r \in prop}}
    IN  Reverse(SortAscending(EngineOrder(totals, order), "count"))

\* prop_dat.group_by("clade").agg(pl.col("count").sum()).sort("count")
SortedTotals(prop, order) ==
    LET totals == {[clade |-> c, count |-> SumCount({r \in prop : r.clade = c})]
                   : c \in {r.clade : r \in prop}}
    IN  SortAscending(EngineOrder(totals, order), "count")

\* FirstClades with a slice one longer
FirstCladesOneMore(sorted) ==
    LET n == IF Len(sorted) < MaxClades + 1 THEN Len(sorted) ELSE MaxClades + 1
    IN  [i \in 1..n |-> sorted[i].clade]

\* .get_column("clade").to_list()[:9]
FirstClades(sorted) ==
    LET n == IF Len(sorted) < MaxClades THEN Len(sorted) ELSE MaxClades
    IN  [i \in 1..n |-> sorted[i].clade]

\* len(high_prev_variants) > 9
TooMany(variants) == Len(variants) > MaxClades

\* The call clades_to_model(dataf, thr, weeks): the values of max_day,
\* three_sundays_ago, prop_dat and the returned list; None.weekday() raises
\* AttributeError when the date column has no value.
clades_to_model(dataf, thr, weeks, order) ==
    LET day == MaxDay(dataf)
    IN  IF day = Null
        THEN [max_day |-> Null, three_sundays_ago |-> Null, prop_dat |-> {},
              returned |-> <<>>, error |-> "AttributeError"]
        ELSE LET start == ThreeSundaysAgo(day[1], weeks)
                 prop == PropDat(WeeklyCounts(dataf, start))
                 high == HighPrevVariants(prop, thr, order)
             IN  [max_day |-> day, three_sundays_ago |-> <<start>>, prop_dat |-> prop,
                  returned |-> IF TooMany(high)
                               THEN FirstClades(SortedTotals(prop, order))
                               ELSE high,
                  error |-> ""]

----------------------------------------------------------------------------
(* Inputs *)

Iso(d) == <<"iso", d>>

\* Raw rows that pass the filter: two states, two days, two clades.
GoodRows ==
    {[clade_nextstrain |-> c, country |-> "USA", division |-> l,
      host |-> "Homo sapiens", date |-> Iso(d)]
     : c \in {"XBB", "JN.1"}, l \in {"California", "Texas"}, d \in {MaxDate - 1, MaxDate}}

SampleRow ==
    [clade_nextstrain |-> "XBB", country |-> "USA", division |-> "California",
     host |-> "Homo sapiens", date |-> Iso(MaxDate)]

\* Raw rows that fail one condition of the filter each, and one that fails all.
BadRows ==
    {[SampleRow EXCEPT !.country = "Canada"],
     [SampleRow EXCEPT !.division = "Puerto Rico"],
     [SampleRow EXCEPT !.host = "Canis lupus"],
     [SampleRow EXCEPT !.date = <<"text">>],
     [SampleRow EXCEPT !.date = <<>>],
     [SampleRow EXCEPT !.country = "Canada", !.division = "Puerto Rico",
                       !.host = "Canis lupus", !.date = <<"text">>]}

RawRowKinds == SetToSeq(GoodRows \cup BadRows)

\* The raw line lists: up to MaxRows rows, duplicates included.  The order of
\* the rows of a line list does not reach the result (the groups come in
\* engine order), so each list is taken once, its rows in the order of
\* RawRowKinds.
RawInputs ==
    LET K == Len(RawRowKinds)
        idx == UNION {{f \in [1..n -> 1..K] : \A i \in 1..(n - 1) : f[i] <= f[i + 1]}
                      : n \in 0..MaxRows}
    IN  {[i \in 1..Len(f) |-> RawRowKinds[f[i]]] : f \in idx}

CladeNames ==
    <<"20A", "20B", "20C", "20D", "20E", "20F", "20G", "20H", "20I", "20J", "20K">>

Row(l, d, c, k) == [location |-> l, date |-> <<d>>, clade |-> c, count |-> k]

\* n clades seen MaxCount times each in one state on one day, two weeks before
\* the last week of the calendar
Bulk(n) == {Row("California", MaxDate - 13, CladeNames[i], MaxCount) : i \in 1..n}

\* the sizes of the bulk: none, and the sizes around the cap
BulkSizes == {0, MaxClades - 1, MaxClades, MaxClades + 1}

\* one sample on the last day, on each day of the last week of the calendar
LatestRows == {Row("California", d, "XBB", 1) : d \in (MaxDate - 6)..MaxDate}

\* at most one more row, on any day: the same clade in the other state or on
\* another day, or another clade
OlderRows ==
    {Row(x[1], d, x[2], k)
     : x \in {<<"California", "XBB">>, <<"Texas", "XBB">>, <<"California", "JN.1">>},
       d \in 0..MaxDate, k \in 1..MaxCount}

\* The aggregated inputs of clades_to_model called on its own: frames with the
\* shape of an output of data_prep (one row per location, date and clade,
\* counts >= 1, sorted by date).
OlderChoices(latest) ==
    {{}} \cup {{o} : o \in {r \in OlderRows : /\ r.date[1] <= latest.date[1]
                                             /\ GroupKey(r) # GroupKey(latest)}}

AggInputs ==
    UNION {{SortAscending(SetToSeq(Bulk(n) \cup {latest} \cup older), "date")
            : n \in BulkSizes, older \in OlderChoices(latest)}
           : latest \in LatestRows}

----------------------------------------------------------------------------
(* The pipeline: raw line list -> data_prep -> clades_to_model *)

Init ==
    /\ raw \in RawInputs
    /\ counts_dat = <<>>
    /\ threshold = Null
    /\ threshold_weeks = 0
    /\ max_day = Null
    /\ three_sundays_ago = Null
    /\ prop_dat = {}
    /\ high_prev_variants = <<>>
    /\ error = ""
    /\ again = <<>>
    /\ pc = "raw"

DataPrep ==
    /\ pc = "raw"
    /\ \E order \in Orders : counts_dat' = data_prep(raw, order)
    /\ pc' = "counts"
    /\ UNCHANGED <<raw, threshold, threshold_weeks, max_day, three_sundays_ago,
                   prop_dat, high_prev_variants, error, again>>

CladesToModel ==
    /\ pc = "counts"
    /\ \E thr \in Thresholds, weeks \in 1..MaxWeeks, order \in Orders :
          \E out \in {clades_to_model(counts_dat, thr, weeks, order)} :
              /\ threshold' = thr
              /\ threshold_weeks' = weeks
              /\ max_day' = out.max_day
              /\ three_sundays_ago' = out.three_sundays_ago
              /\ prop_dat' = out.prop_dat
              /\ high_prev_variants' = out.returned
              /\ error' = out.error
    /\ pc' = "done"
    /\ UNCHANGED <<raw, counts_dat, again>>

Next == DataPrep \/ CladesToModel

Spec == Init /\ [][Next]_vars

----------------------------------------------------------------------------
(* clades_to_model on its own, called twice with the same arguments *)

InitSel ==
    /\ raw = <<>>
    /\ counts_dat \in AggInputs
    /\ threshold = Null
    /\ threshold_weeks = 0
    /\ max_day = Null
    /\ three_sundays_ago = Null
    /\ prop_dat = {}
    /\ high_prev_variants = <<>>
    /\ error = ""
    /\ again = <<>>
    /\ pc = "counts"

CladesToModelAgain ==
    /\ pc = "done"
    /\ error = ""
    /\ \E order \in Orders :
          again' = clades_to_model(counts_dat, threshold, threshold_weeks, order).returned
    /\ pc' = "again"
    /\ UNCHANGED <<raw, counts_dat, threshold, threshold_weeks, max_day,
                   three_sundays_ago, prop_dat, high_prev_variants, error>>

NextSel == CladesToModel \/ CladesToModelAgain

SpecSel == InitSel /\ [][NextSel]_vars

----------------------------------------------------------------------------
(* What the claims speak of, stated from the inputs and the results *)

Done == pc = "done" /\ error = ""

\* a raw row that meets the four conditions
MeetsAll(r) ==
    /\ r.country = "USA"
    /\ r.host = "Homo sapiens"
    /\ r.division \in states
    /\ r.date # <<>>
    /\ r.date[1] = "iso"

\* the key under which a raw row that meets the conditions is counted
RawKey(r) == <<r.division, r.date[2], r.clade_nextstrain>>

OutKey(r) == <<r.location, r.date[1], r.clade>>

RawMatching(k) == {j \in 1..Len(raw) : MeetsAll(raw[j]) /\ RawKey(raw[j]) = k}

\* the Sunday that begins the Sunday-to-Saturday week of day d
SundayOf(d) == d - ((d + 1) % 7)

\* the rows of the input from the cutoff on
WindowRows == {r \in Range(counts_dat) : r.date[1] >= three_sundays_ago[1]}

WindowClades == {r.clade : r \in WindowRows}

\* the count of clade v in the week that begins on Sunday w, among rows
WeekCount(rows, v, w) == SumCount({r \in rows : r.clade = v /\ SundayOf(r.date[1]) = w})

\* the count of all clades in that week
WeekTotal(rows, w) == SumCount({r \in rows : SundayOf(r.date[1]) = w})

\* clade v, in some week, has a proportion that exceeds the threshold
ExceedsIn(rows, v) ==
    \E w \in {SundayOf(r.date[1]) : r \in rows} :
        \E total \in {WeekTotal(rows, w)} :
            WeekCount(rows, v, w) * threshold.den > threshold.num * total

\* clade v, in some week, has a proportion equal to the threshold
EqualsIn(rows, v) ==
    \E w \in {SundayOf(r.date[1]) : r \in rows} :
        WeekCount(rows, v, w) * threshold.den = threshold.num * WeekTotal(rows, w)

\* the clades over the threshold in some week
Qualifying ==
    UNION {{v \in {r.clade : r \in rows} : ExceedsIn(rows, v)} : rows \in {WindowRows}}

\* the total of each clade over the window
WindowTotal ==
    UNION {{[v \in {r.clade : r \in rows} |-> SumCount({r \in rows : r.clade = v})]}
           : rows \in {WindowRows}}

NoDuplicates(s) == \A i, j \in 1..Len(s) : i # j => s[i] # s[j]

----------------------------------------------------------------------------
(* Claims *)

\* C1: every row of the output of data_prep has a non-null date and a location
\* in the set of 51 states, and comes from raw rows that meet all four
\* conditions; the raw rows that fail a condition are counted in no row (the
\* counts add up to the number of raw rows that meet all four).
C1_FilterExhaustive ==
    pc # "raw" =>
        /\ Cardinality(states) = 51
        /\ \A i \in 1..Len(counts_dat) :
              /\ IsNotNull(counts_dat[i].date)
              /\ counts_dat[i].location \in states
              /\ RawMatching(OutKey(counts_dat[i])) # {}
        /\ SumCount(Range(counts_dat)) = Cardinality({j \in 1..Len(raw) : MeetsAll(raw[j])})

\* C1 witness: an output with a row, from a line list that also holds a Puerto
\* Rico row and a non-human row.
C1_Witness ==
    /\ pc = "counts"
    /\ Len(counts_dat) >= 1
    /\ \E j \in 1..Len(raw) : raw[j].division = "Puerto Rico"
    /\ \E j \in 1..Len(raw) : raw[j].host = "Canis lupus"

\* C2: in the output of data_prep no two rows share (location, date, clade),
\* every key with a raw row that passes the filter has its row, and the count
\* of a row is the number of raw rows that pass the filter and have its key.
C2_CountsExact ==
    pc # "raw" =>
        /\ \A i, j \in 1..Len(counts_dat) :
              i # j => OutKey(counts_dat[i]) # OutKey(counts_dat[j])
        /\ \A i \in 1..Len(counts_dat) :
              counts_dat[i].count = Cardinality(RawMatching(OutKey(counts_dat[i])))
        /\ \A j \in 1..Len(raw) :
              MeetsAll(raw[j]) =>
                  \E i \in 1..Len(counts_dat) : OutKey(counts_dat[i]) = RawKey(raw[j])

\* C2 witness: three rows that pass and one non-human row give one row of
\* count 3.
C2_Witness ==
    /\ pc = "counts"
    /\ Len(raw) = 4
    /\ \E j \in 1..Len(raw) : raw[j].host = "Canis lupus"
    /\ Len(counts_dat) = 1
    /\ counts_dat[1].count = 3

\* C3: the list clades_to_model returns has at most 9 entries and no entry
\* twice.
C3_AtMostNineDistinct ==
    Done => Len(high_prev_variants) <= 9 /\ NoDuplicates(high_prev_variants)

\* C3 witness: more than 9 clades are over the threshold and 9 are returned.
C3_Witness ==
    /\ pc = "done"
    /\ error = ""
    /\ Cardinality(Qualifying) > 9
    /\ Len(high_prev_variants) = 9

\* C4: no record dated in the Sunday-start week of max_day reaches a weekly
\* count, total or proportion.
C4_CurrentWeekExcluded ==
    Done => \A r \in prop_dat : r.date # SundayOf(max_day[1])

\* C5: every returned clade is over the threshold in some week of the window.
C5_ReturnedCrossThreshold ==
    Done => \A i \in 1..Len(high_prev_variants) : high_prev_variants[i] \in Qualifying

C7_EmptyPipeline ==
    (pc = "done" /\ \A j \in 1..Len(raw) : ~MeetsAll(raw[j])) =>
        /\ Len(counts_dat) = 0
        /\ error = ""
        /\ high_prev_variants = <<>>

\* C8: two calls of clades_to_model with the same arguments return the same
\* set of clades.
C8_SameSetTwice ==
    pc = "again" => Range(again) = Range(high_prev_variants)

\* C9: the cutoff is the Sunday that begins the week of max_day, less
\* 7 * threshold_weeks days, and so a Sunday.
C9_CutoffIsSunday ==
    Done =>
        /\ three_sundays_ago[1] = SundayOf(max_day[1]) - 7 * threshold_weeks
        /\ three_sundays_ago[1] % 7 = 6

====
